---- MODULE Spec2Model ----
(***************************************************************************)
(* Model of the compositor's cached image container                        *)
(* (source/blender/compositor/cached_resources/intern/cached_image.cc):    *)
(* CachedImageKey, CachedImage and CachedImageContainer::get()/reset(),    *)
(* and of the node graph utilities                                         *)
(* (source/blender/compositor/intern/utilities.cc).                        *)
(*                                                                         *)
(* C strings are sequences of one-character strings, so that string        *)
(* concatenation (std::string operator+) is \o and hashing reads the       *)
(* characters.  A null pointer is the record NULL.                         *)
(***************************************************************************)
EXTENDS Integers, Sequences, FiniteSets, TLC

VARIABLES
    context,        \* the Context of the evaluation pass under way
    map_,           \* CachedImageContainer::map_ : id_key -> (CachedImageKey -> CachedImage)
    built,          \* number of CachedImage objects constructed so far (factory invocations)
    call,           \* the last call: get() with the pair it computed, the recalculation
                    \* flag it was given and what its factory acquired, or reset()
    ret,            \* what the last call returned: a Result, or NoResult after reset()
    passBuilds,     \* history: for each (id_key, key) pair passed to get() since the last
                    \* reset(), the factory invocations for it since then
    evicted,        \* history: pairs whose entries the last reset() removed
    handedOut,      \* history: ids of the resources returned by get() since the last reset()
    lastPass,       \* history: the pairs passed to get() between the last two reset()
                    \* calls, each with the recalculation flag of its owner in that
                    \* pass and the resource its entry held when the pass ended
    released,       \* history: for each CachedImage whose destructor ran, how often its
                    \* result was released and how often its texture was freed
    probe,          \* inputs of the pure functions under test (SpecKey, SpecOwner)
    out,            \* their results (SpecKey, SpecOwner)
    ctor,           \* a CachedImage constructor under way: its position, its locals
                    \* and the buffer operations it has performed (SpecCtor)
    jack            \* a JackDevice: its members, its mixing thread, its destructor
                    \* and the client it registered with JACK (SpecJack)

cacheVars == <<context, map_, built, call, ret, passBuilds, evicted, handedOut, lastPass,
               released>>
pureVars == <<probe, out>>
stepVars == <<ctor, jack>>
vars == <<context, map_, built, call, ret, passBuilds, evicted, handedOut, lastPass,
          released, probe, out, ctor, jack>>

NULL == [null |-> TRUE]

-----------------------------------------------------------------------------
(* Bounds of the model. *)

\* get() is not taken once this many CachedImage objects were constructed.
MaxBuilds == 3

\* SpecOwner: longest image name (after the "IM" prefix) and library name
\* (after the "LI" prefix) that are enumerated.
MaxNameLen == 4
MaxLibLen == 1

\* SpecGraph: most origins an origin traversal visits, most targets a target
\* traversal visits, most outputs of a node and most inputs a node declares.
MaxOrigins == 2
MaxTargets == 3
MaxOutputs == 3
MaxDeclared == 2

\* SpecView: the views of the multi-view image.
MaxViews == 2

\* SpecJack: the size of a ring buffer in samples, and the most increments of
\* a revision counter.
RingSize == 2
MaxRevision == 2

-----------------------------------------------------------------------------
(* Strings. *)

IM_a == <<"I", "M", "a">>
LI_b == <<"L", "I", "b">>
Combined == <<"C", "o", "m", "b", "i", "n", "e", "d">>
Depth == <<"D", "e", "p", "t", "h">>

\* ASCII codes of the characters of the pass names.
Ord(c) ==
    CASE c = "C" -> 67 [] c = "D" -> 68 [] c = "b" -> 98 [] c = "d" -> 100
      [] c = "e" -> 101 [] c = "h" -> 104 [] c = "i" -> 105 [] c = "m" -> 109
      [] c = "n" -> 110 [] c = "o" -> 111 [] c = "p" -> 112 [] c = "t" -> 116

-----------------------------------------------------------------------------
(* Cached Image Key. *)

\* CachedImageKey::CachedImageKey: the key stores the whole image user and the
\* pass name.
CachedImageKey(image_user, pass_name) ==
    [image_user |-> image_user, pass_name |-> pass_name]

\* uint64_t arithmetic is kept to its low 15 bits: +, * and xor commute with
\* truncation, so hash(key) is the low 15 bits of the value hash() returns.
HashMod == 2^15

RECURSIVE BitXor(_, _)
BitXor(a, b) ==
    IF a = 0 THEN b
    ELSE IF b = 0 THEN a
    ELSE (((a % 2) + (b % 2)) % 2) + (2 * BitXor(a \div 2, b \div 2))

MulMod(a, b) == ((a % HashMod) * (b % HashMod)) % HashMod

\* DefaultHash<std::string>: hash = 5381; hash = hash * 33 + c for each byte.
RECURSIVE hash_string(_)
hash_string(s) ==
    IF s = <<>> THEN 5381 % HashMod
    ELSE (MulMod(hash_string(SubSeq(s, 1, Len(s) - 1)), 33) + Ord(s[Len(s)])) % HashMod

\* get_default_hash(v1, v2, v3, v4) of BLI_hash.hh on three ints and a string.
get_default_hash(v1, v2, v3, v4) ==
    BitXor(BitXor(v1 % HashMod, MulMod(v2, 19349669)),
           BitXor(MulMod(v3, 83492791), MulMod(hash_string(v4), 3632623)))

\* CachedImageKey::hash
hash(key) ==
    get_default_hash(key.image_user.framenr, key.image_user.layer,
                     key.image_user.view, key.pass_name)

\* An equality that forgets to compare the view.
KeyEqNoView(a, b) ==
    /\ a.image_user.framenr = b.image_user.framenr
    /\ a.image_user.layer = b.image_user.layer
    /\ a.pass_name = b.pass_name

\* operator==(const CachedImageKey &, const CachedImageKey &)
KeyEq(a, b) ==
    /\ a.image_user.framenr = b.image_user.framenr
    /\ a.image_user.layer = b.image_user.layer
    /\ a.image_user.view = b.image_user.view
    /\ a.pass_name = b.pass_name

-----------------------------------------------------------------------------
(* The inputs of get(). *)

\* ID_RECALC_ALL of DNA_ID.h: every recalculation bit.  A flag word is the set
\* of its bits, and `flags & ID_RECALC_ALL' is the intersection.
ID_RECALC_ALL == {"ID_RECALC_TRANSFORM", "ID_RECALC_SOURCE"}

\* Library: its ID name.
LibB == [id |-> [name |-> LI_b]]

\* The IDs of the images: name with the "IM" code, library or NULL.
ImageIDs ==
    { [name |-> IM_a, lib |-> NULL],
      [name |-> IM_a, lib |-> LibB] }

\* The names of the views of a multi-view image, in the order of its list of
\* views.
ImageViews == SubSeq(<<"left", "right", "center", "top">>, 1, MaxViews)

\* The name of the view being rendered: one of these, or none.
ViewNames == {""} \cup {ImageViews[i] : i \in 1..Len(ImageViews)}

\* Context: what get() and the CachedImage constructor read from it, the
\* recalculation flag word of each ID, the device and the name of the view being
\* rendered.  A context is created for one evaluation pass and is only read
\* during it.
Contexts ==
    [id_recalc : [ImageIDs -> {{}, {"ID_RECALC_SOURCE"}}], use_gpu : BOOLEAN,
     view_name : ViewNames]

\* Context::get_view_name()
get_view_name(ctx) == ctx.view_name

\* Context::use_gpu()
use_gpu(ctx) == ctx.use_gpu

\* Context::query_id_recalc_flag(id)
query_id_recalc_flag(ctx, image) == ctx.id_recalc[image.id]

\* Image: its ID, whether BKE_image_acquire_ibuf() can return an image buffer
\* for it, the names of its views (image->rr->views) and the names of the passes
\* of its render layer, empty unless the image is a multi-layer image.  These
\* images have a single layer and no views.
Images == [id : ImageIDs, has_ibuf : BOOLEAN, views : {<<>>}, passes : {<<>>}]

Frames == {1, 2}

\* ImageUser: the members the cache reads or copies.
ImageUsers == [framenr : {0}, layer : {0}, view : {0}, pass : {0}]

PassNames == {Combined}

\* BKE_image_user_frame_calc(image, &image_user_for_frame, frame): the image
\* users it may leave behind.  Its code is outside the sources modelled here:
\* every effective frame is possible, the other members are kept.
BKE_image_user_frame_calc(image, image_user, ctx) ==
    { [image_user EXCEPT !.framenr = f] : f \in Frames }

-----------------------------------------------------------------------------
(* Cached Image. *)

\* reset() returns nothing, and nothing was returned before the first call.
NoResult == [none |-> TRUE]

\* A Result that is allocated from the start.
ResultAllocated(ctx) == [id |-> 0, allocated |-> TRUE]

\* Result(context): an empty result, nothing allocated.
Result(ctx) == [id |-> 0, allocated |-> FALSE]

\* BKE_image_acquire_ibuf(image, image_user, nullptr)
BKE_image_acquire_ibuf(image, image_user) ==
    IF image.has_ibuf THEN [ibuf |-> TRUE] ELSE NULL

\* BLI_findstringindex: the index of the first link with that name, from 0, or
\* -1 when there is none.
BLI_findstringindex(listbase, name) ==
    IF \E i \in 1..Len(listbase) : listbase[i] = name
    THEN (CHOOSE i \in 1..Len(listbase) :
              /\ listbase[i] = name
              /\ \A j \in 1..(i - 1) : listbase[j] # name) - 1
    ELSE -1

\* BKE_image_is_multiview(image)
BKE_image_is_multiview(image) == image.views # <<>>

\* BKE_image_is_multilayer(image)
BKE_image_is_multilayer(image) == image.passes # <<>>

\* get_pass_index
get_pass_index(image, image_user, name) == BLI_findstringindex(image.passes, name)

\* get_view_index
get_view_index(ctx, image, image_user) ==
    IF ~BKE_image_is_multiview(image) THEN 0
    ELSE IF Len(image.views) < 2 THEN 0
    ELSE IF image_user.view # 0 THEN image_user.view - 1
    ELSE LET matched_view == BLI_findstringindex(image.views, get_view_name(ctx))
         IN  IF matched_view = -1 THEN 0 ELSE matched_view

\* compute_image_user_for_pass: the view and pass members select the image
\* buffer that the second BKE_image_acquire_ibuf() returns.
compute_image_user_for_pass(ctx, image, image_user, pass_name) ==
    LET with_view == [image_user EXCEPT !.view = get_view_index(ctx, image, image_user)]
    IN  IF BKE_image_is_multilayer(image)
        THEN [with_view EXCEPT !.pass = get_pass_index(image, with_view, pass_name)]
        ELSE with_view

\* A constructor that allocates a result also when no image buffer exists.
CachedImageAlwaysAllocates(ctx, image, image_user, pass_name, id) ==
    [result |-> [id |-> id, allocated |-> TRUE], texture_ |-> NULL, needed |-> TRUE,
     pixels |-> compute_image_user_for_pass(ctx, image, image_user, pass_name)]

\* IMB_create_gpu_texture: a new texture, named after the object that owns it.
IMB_create_gpu_texture(id) == [texture |-> id]

\* CachedImage::CachedImage: the object numbered id.  The result stays empty
\* (early return) when the initial image buffer is null, and holds the pixels
\* of the image otherwise: on the GPU it wraps the texture created into
\* texture_, on the CPU it is allocated and texture_ stays null.  pixels names
\* the image buffer the pixels were read from, by the image user that selected
\* it.
CachedImage(ctx, image, image_user, pass_name, id) ==
    LET initial_image_buffer == BKE_image_acquire_ibuf(image, image_user)
        image_user_for_pass == compute_image_user_for_pass(ctx, image, image_user, pass_name)
    IN  IF initial_image_buffer = NULL
        THEN [result |-> [Result(ctx) EXCEPT !.id = id], texture_ |-> NULL, needed |-> TRUE,
              pixels |-> NULL]
        ELSE IF use_gpu(ctx)
        THEN [result |-> [id |-> id, allocated |-> TRUE],
              texture_ |-> IMB_create_gpu_texture(id), needed |-> TRUE,
              pixels |-> image_user_for_pass]
        ELSE [result |-> [id |-> id, allocated |-> TRUE], texture_ |-> NULL, needed |-> TRUE,
              pixels |-> image_user_for_pass]

\* A destructor that leaves the texture alone.
DestructorKeepsTexture(cached_image) == [result |-> 1, texture |-> 0]

\* CachedImage::~CachedImage: the releases it performs, this->result.release()
\* and GPU_TEXTURE_FREE_SAFE(texture_), which frees a texture that is not null.
CachedImageDestructor(cached_image) ==
    [result |-> 1, texture |-> IF cached_image.texture_ # NULL THEN 1 ELSE 0]

\* The releases recorded in log after the destructors of the objects in
\* destroyed have run.
Destruct(log, destroyed) ==
    LET ids == {v.result.id : v \in destroyed}
        Before(id) == IF id \in DOMAIN log THEN log[id] ELSE [result |-> 0, texture |-> 0]
        Now(id) == CachedImageDestructor(CHOOSE v \in destroyed : v.result.id = id)
    IN  [id \in DOMAIN log \cup ids |->
            IF id \in ids
            THEN [result |-> Before(id).result + Now(id).result,
                  texture |-> Before(id).texture + Now(id).texture]
            ELSE log[id]]

-----------------------------------------------------------------------------
(* blender::Map.  The outer map is a function on the keys it holds.  The inner
   map, whose keys compare by operator==, is a set of items [key, value]. *)

Items(m) == UNION {m[k] : k \in DOMAIN m}

LiveIds == {it.value.result.id : it \in Items(map_)}

contains(inner, key) == \E it \in inner : KeyEq(it.key, key)

lookup(inner, key) == CHOOSE it \in inner : KeyEq(it.key, key)

\* Map::lookup_or_add_default(id_key)
lookup_or_add_default(m, id_key) ==
    IF id_key \in DOMAIN m THEN m ELSE (id_key :> {}) @@ m

\* A lookup_or_add_cb that never finds the key and always adds.
lookup_or_add_cb_always(inner, key, value) ==
    [map |-> inner \cup {[key |-> key, value |-> value]}, called |-> TRUE]

\* Map::lookup_or_add_cb(key, create_value): the map afterwards, and whether
\* create_value was called.
lookup_or_add_cb(inner, key, value) ==
    IF contains(inner, key)
    THEN [map |-> inner, called |-> FALSE]
    ELSE [map |-> inner \cup {[key |-> key, value |-> value]}, called |-> TRUE]

\* A remove_if that removes nothing.
remove_if_none(inner) == inner

\* A remove_if that removes every entry.
remove_if_all(inner) == {}

\* Map::remove_if on the inner map with predicate !item.value->needed.
remove_if_not_needed(inner) == {it \in inner : it.value.needed}

\* A remove_if that removes no owner.
remove_if_empty_keeps(m) == m

\* Map::remove_if on the outer map with predicate item.value.is_empty().
remove_if_empty(m) == [k \in {x \in DOMAIN m : m[x] # {}} |-> m[k]]

-----------------------------------------------------------------------------
(* Cached Image Container. *)

\* The four members of a key that operator== compares.
KeyFields(key) ==
    <<key.image_user.framenr, key.image_user.layer, key.image_user.view, key.pass_name>>

\* std::string(image->id.name) + library_key
IdKey(image) ==
    LET library_key == IF image.id.lib # NULL THEN image.id.lib.id.name ELSE <<>>
    IN  image.id.name \o library_key

\* The (id_key, key) pairs that have an entry in the map m.
PairsOf(m) == UNION {{<<k, KeyFields(it.key)>> : it \in m[k]} : k \in DOMAIN m}

Present == PairsOf(map_)

\* The pairs passed to get() since the last reset().
Requested == DOMAIN passBuilds

\* A clear() that removes only the entry of the requested key.
ClearOnlyKey(inner, key) == {it \in inner : ~KeyEq(it.key, key)}

\* cached_images_for_id.clear()
clear(inner, key) == {}

\* A needed flag that is set on every entry of the owner.
MarkNeededAll(inner, key) == {[it EXCEPT !.value.needed = TRUE] : it \in inner}

\* A needed flag that is left as it was.
MarkNeededNot(inner, key) == inner

\* cached_image.needed = true
MarkNeeded(inner, key) ==
    {IF KeyEq(it.key, key) THEN [it EXCEPT !.value.needed = TRUE] ELSE it : it \in inner}

\* CachedImageContainer::get, called with the context of the pass under way.
\* image_user_for_frame is the image user after BKE_image_user_frame_calc.
get(image, image_user, pass_name, image_user_for_frame) ==
    IF image = NULL \/ image_user = NULL
    THEN /\ image_user_for_frame = NULL
         /\ call' = [op |-> "get", null |-> TRUE]
         /\ ret' = Result(context)
         /\ UNCHANGED <<context, map_, built, passBuilds, evicted, handedOut, lastPass,
                        released>>
    ELSE /\ image_user_for_frame \in BKE_image_user_frame_calc(image, image_user, context)
         /\ LET key == CachedImageKey(image_user_for_frame, pass_name)
                id_key == IdKey(image)
                map1 == lookup_or_add_default(map_, id_key)
                recalc == (query_id_recalc_flag(context, image) \cap ID_RECALC_ALL) # {}
                cached_images_for_id ==
                    IF recalc THEN clear(map1[id_key], key) ELSE map1[id_key]
                destroyed == IF recalc THEN {it.value : it \in map1[id_key]} ELSE {}
                added == lookup_or_add_cb(
                             cached_images_for_id, key,
                             CachedImage(context, image, image_user_for_frame, pass_name,
                                         built + 1))
                cached_image == lookup(added.map, key).value
                pair == <<id_key, KeyFields(key)>>
                invoked == IF added.called THEN 1 ELSE 0
           IN  /\ added.called => built < MaxBuilds
               /\ map_' = [map1 EXCEPT ![id_key] = MarkNeeded(added.map, key)]
               /\ built' = built + invoked
               /\ call' = [op |-> "get", null |-> FALSE, pair |-> pair, recalc |-> recalc,
                           acquired |-> IF ~added.called THEN "not invoked"
                                        ELSE IF image.has_ibuf THEN "ibuf" ELSE "nullptr"]
               /\ ret' = cached_image.result
               /\ passBuilds' =
                      (pair :> ((IF pair \in Requested THEN passBuilds[pair] ELSE 0) + invoked))
                          @@ passBuilds
               /\ handedOut' = handedOut \cup {cached_image.result.id}
               /\ released' = Destruct(released, destroyed)
               /\ UNCHANGED <<context, evicted, lastPass>>

\* The entries of the pair p in the map m.
EntriesOf(m, p) ==
    IF p[1] \in DOMAIN m THEN {it \in m[p[1]] : KeyFields(it.key) = p[2]} ELSE {}

\* Whether the context ctx reports a recalculation flag for the image whose
\* id_key is given.
OwnerFlagged(ctx, id_key) ==
    \E id \in ImageIDs :
        /\ IdKey([id |-> id]) = id_key
        /\ (query_id_recalc_flag(ctx, [id |-> id]) \cap ID_RECALC_ALL) # {}

\* What is remembered of a pair p requested in the pass that ends: the flag of
\* its owner in that pass and the resource its entry holds at the end of the
\* pass, if it still has an entry.
PassRecord(ctx, m, p) ==
    [recalc |-> OwnerFlagged(ctx, p[1]),
     ids |-> {it.value.result.id : it \in EntriesOf(m, p)}]

\* A reset() that skips its second loop and leaves the needed flags set.
ResetKeepsNeeded(m) ==
    remove_if_empty([k \in DOMAIN m |-> remove_if_not_needed(m[k])])

\* CachedImageContainer::reset on map_: the map afterwards.
ResetMap(m) ==
    LET pruned == remove_if_empty([k \in DOMAIN m |-> remove_if_not_needed(m[k])])
    IN  [k \in DOMAIN pruned |->
            {[it EXCEPT !.value.needed = FALSE] : it \in pruned[k]}]

\* CachedImageContainer::reset
reset ==
    /\ map_' = ResetMap(map_)
    /\ evicted' = PairsOf([k \in DOMAIN map_ |-> {it \in map_[k] : ~it.value.needed}])
    /\ passBuilds' = <<>>
    /\ handedOut' = {}
    /\ lastPass' = [p \in Requested |-> PassRecord(context, map_, p)]
    /\ released' = Destruct(released, {it.value : it \in {x \in Items(map_) : ~x.value.needed}})
    /\ call' = [op |-> "reset"]
    /\ ret' = NoResult
    /\ UNCHANGED <<context, built>>

\* The next evaluation pass starts, with a context of its own: the
\* recalculation flags change between passes, after reset() and before the
\* first get().
NewEvaluation(contexts) ==
    /\ Requested = {}
    /\ context' \in contexts \ {context}
    /\ call' = [op |-> "evaluate"]
    /\ ret' = NoResult
    /\ UNCHANGED <<map_, built, passBuilds, evicted, handedOut, lastPass, released>>

\* The container is destroyed, and map_ with it: every CachedImage it still
\* holds is destroyed.
Destroy ==
    /\ map_' = <<>>
    /\ released' = Destruct(released, {it.value : it \in Items(map_)})
    /\ evicted' = PairsOf(map_)
    /\ passBuilds' = <<>>
    /\ handedOut' = {}
    /\ lastPass' = <<>>
    /\ call' = [op |-> "destroy"]
    /\ ret' = NoResult
    /\ UNCHANGED <<context, built>>

-----------------------------------------------------------------------------
(* The container's specification: any sequence of get() and reset() calls, in
   passes that run on the CPU. *)

NoProbe == [kind |-> "none"]

\* No constructor is under way and no JackDevice exists.
NoCtor == [pc |-> "none"]
NoJack == [mixing |-> "none"]
NoSteps == ctor = NoCtor /\ jack = NoJack

\* The contexts of Spec: no view is being rendered.
CpuContexts == {ctx \in Contexts : ~use_gpu(ctx) /\ get_view_name(ctx) = ""}

InitCache ==
    /\ map_ = <<>>
    /\ built = 0
    /\ call = [op |-> "none"]
    /\ ret = NoResult
    /\ passBuilds = <<>>
    /\ evicted = {}
    /\ handedOut = {}
    /\ lastPass = <<>>
    /\ released = <<>>

Init ==
    /\ context \in CpuContexts
    /\ InitCache
    /\ probe = NoProbe
    /\ out = NoProbe
    /\ NoSteps

GetCall(images) ==
    \E image \in images \cup {NULL},
       image_user \in ImageUsers \cup {NULL}, pass_name \in PassNames,
       image_user_for_frame \in [framenr : Frames, layer : {0}, view : {0}, pass : {0}]
                                    \cup {NULL} :
        get(image, image_user, pass_name, image_user_for_frame)

Next ==
    \/ GetCall(Images) /\ UNCHANGED <<pureVars, stepVars>>
    \/ reset /\ UNCHANGED <<pureVars, stepVars>>
    \/ NewEvaluation(CpuContexts) /\ UNCHANGED <<pureVars, stepVars>>

Spec == Init /\ [][Next]_vars

-----------------------------------------------------------------------------
(* The container on either device, used for one image until it is destroyed. *)

DeviceImages == {image \in Images : image.id.lib = NULL}

\* The contexts whose flags concern that image alone.
DeviceContexts ==
    {ctx \in Contexts :
        /\ get_view_name(ctx) = ""
        /\ \A id \in ImageIDs : id.lib # NULL => query_id_recalc_flag(ctx, [id |-> id]) = {}}

InitDevice ==
    /\ context \in DeviceContexts
    /\ InitCache
    /\ probe = NoProbe
    /\ out = NoProbe
    /\ NoSteps

NextDevice ==
    \/ call.op # "destroy" /\ GetCall(DeviceImages) /\ UNCHANGED <<pureVars, stepVars>>
    \/ call.op # "destroy" /\ reset /\ UNCHANGED <<pureVars, stepVars>>
    \/ call.op # "destroy" /\ NewEvaluation(DeviceContexts) /\ UNCHANGED <<pureVars, stepVars>>
    \/ call.op # "destroy" /\ Destroy /\ UNCHANGED <<pureVars, stepVars>>

SpecDevice == InitDevice /\ [][NextDevice]_vars

-----------------------------------------------------------------------------
(* The container used for one multi-view, multi-layer image, in passes that
   render one view each. *)

\* The image: every view has an image buffer.
MultiViewImage ==
    [id |-> [name |-> IM_a, lib |-> NULL], has_ibuf |-> TRUE, views |-> ImageViews,
     passes |-> <<Depth, Combined>>]

\* The image users of the nodes that read it: "All" (0) or one of its views.
ViewImageUsers == [framenr : {0}, layer : {0}, view : 0..MaxViews, pass : {0}]

\* The contexts: one per view being rendered, no recalculation flags.
ViewContexts ==
    {ctx \in Contexts :
        /\ ~use_gpu(ctx)
        /\ \A id \in ImageIDs : ctx.id_recalc[id] = {}}

InitView ==
    /\ context \in ViewContexts
    /\ InitCache
    /\ probe = NoProbe
    /\ out = NoProbe
    /\ NoSteps

GetViewCall ==
    \E image_user \in ViewImageUsers :
        \E image_user_for_frame \in
               BKE_image_user_frame_calc(MultiViewImage, image_user, context) :
            get(MultiViewImage, image_user, Combined, image_user_for_frame)

NextView ==
    \/ GetViewCall /\ UNCHANGED <<pureVars, stepVars>>
    \/ reset /\ UNCHANGED <<pureVars, stepVars>>
    \/ NewEvaluation(ViewContexts) /\ UNCHANGED <<pureVars, stepVars>>

SpecView == InitView /\ [][NextView]_vars

-----------------------------------------------------------------------------
(* The CachedImage constructor, one statement at a time, with what it does to
   the image buffers.  Positions are the line numbers of the statements. *)

\* A local pointer before its initialisation.
Unassigned == [unassigned |-> TRUE]

\* The constructor c after `op' on the buffer held by its local `buffer' was
\* added to the record of its buffer operations.
Logged(c, op, buffer) ==
    [c EXCEPT !.log = Append(@, [op |-> op, buffer |-> buffer, null |-> c[buffer] = NULL])]

\* The contexts a constructor runs under: either device.
CtorContexts ==
    {ctx \in Contexts :
        /\ get_view_name(ctx) = ""
        /\ \A id \in ImageIDs : ctx.id_recalc[id] = {}}

InitCtor ==
    /\ context \in CtorContexts
    /\ InitCache
    /\ probe = NoProbe
    /\ out = NoProbe
    /\ jack = NoJack
    /\ ctor \in [pc : {"213"}, image : DeviceImages,
                 initial_image_buffer : {Unassigned}, image_buffer : {Unassigned},
                 linear_image_buffer : {Unassigned}, texture_ : {NULL},
                 result : {[precision |-> "Full", type |-> "Color", allocated |-> FALSE]},
                 log : {<<>>}]

\* ImBuf *initial_image_buffer = BKE_image_acquire_ibuf(image, image_user, nullptr);
AcquireInitial ==
    /\ ctor.pc = "213"
    /\ ctor' = Logged([ctor EXCEPT !.pc = "214",
                                   !.initial_image_buffer =
                                       BKE_image_acquire_ibuf(ctor.image, NULL)],
                      "acquire", "initial_image_buffer")

\* A constructor that forgets the release of the initial buffer.
ReleaseInitialSkipped ==
    /\ ctor.pc = "214"
    /\ ctor' = [ctor EXCEPT !.pc = "215"]

\* BKE_image_release_ibuf(image, initial_image_buffer, nullptr);
ReleaseInitial ==
    /\ ctor.pc = "214"
    /\ ctor' = Logged([ctor EXCEPT !.pc = "215"], "release", "initial_image_buffer")

\* if (!initial_image_buffer) { return; }
EarlyExit ==
    /\ ctor.pc = "215"
    /\ ctor' = [ctor EXCEPT !.pc = IF ctor.initial_image_buffer = NULL
                                   THEN "returned" ELSE "219"]

\* compute_image_user_for_pass and the second BKE_image_acquire_ibuf, for the
\* image buffer of that pass and view: the image may have none.
AcquireImageBuffer ==
    /\ ctor.pc = "219"
    /\ \E image_buffer \in {[ibuf |-> TRUE], NULL} :
           ctor' = Logged([ctor EXCEPT !.pc = "223", !.image_buffer = image_buffer],
                          "acquire", "image_buffer")

\* What follows a read through the pointer held by the local `buffer': the
\* statement at `next', or, the pointer being null, whatever the build makes
\* of the read, a crash or a read of something.
AfterRead(c, buffer, next) ==
    IF c[buffer] = NULL THEN {"crashed", next} ELSE {next}

\* ImBuf *linear_image_buffer = compute_linear_buffer(image_buffer): it reads
\* image_buffer, allocates the linear buffer and lets it borrow the pixels.
ComputeLinearBuffer ==
    /\ ctor.pc = "223"
    /\ \E pc \in AfterRead(ctor, "image_buffer", "225"),
          flags \in SUBSET {"IB_halffloat"}, channels \in {1, 3, 4} :
           LET read == Logged(ctor, "use", "image_buffer")
           IN  ctor' =
                   IF pc = "crashed"
                   THEN [read EXCEPT !.pc = pc]
                   ELSE Logged([read EXCEPT !.pc = pc,
                                            !.linear_image_buffer =
                                                [flags |-> flags, channels |-> channels]],
                               "allocate", "linear_image_buffer")

\* set_precision and set_type, from the flags and channels of the linear buffer.
SetPrecisionAndType ==
    /\ ctor.pc = "225"
    /\ LET read == Logged(ctor, "use", "linear_image_buffer")
           buffer == ctor.linear_image_buffer
       IN  ctor' = [read EXCEPT
                       !.pc = "236",
                       !.result.precision =
                           IF "IB_halffloat" \in buffer.flags THEN "Half" ELSE "Full",
                       !.result.type = IF buffer.channels = 1 THEN "Float" ELSE "Color"]

\* if (context.use_gpu()) { ... } else { ... }: the texture is created from the
\* linear buffer and wrapped, or the result is allocated with the size of
\* image_buffer and the pixels of the linear buffer are copied to it.
FillResult ==
    /\ ctor.pc = "236"
    /\ IF use_gpu(context)
       THEN ctor' = [Logged(ctor, "use", "linear_image_buffer") EXCEPT
                        !.pc = "252",
                        !.texture_ = IMB_create_gpu_texture(1),
                        !.result.allocated = TRUE]
       ELSE \E pc \in AfterRead(ctor, "image_buffer", "252") :
                LET read == Logged(ctor, "use", "image_buffer")
                IN  ctor' =
                        IF pc = "crashed"
                        THEN [read EXCEPT !.pc = pc]
                        ELSE [Logged(read, "use", "linear_image_buffer") EXCEPT
                                 !.pc = pc, !.result.allocated = TRUE]

\* IMB_freeImBuf(linear_image_buffer);
FreeLinearBuffer ==
    /\ ctor.pc = "252"
    /\ ctor' = Logged([ctor EXCEPT !.pc = "253"], "free", "linear_image_buffer")

\* BKE_image_release_ibuf(image, image_buffer, nullptr);
ReleaseImageBuffer ==
    /\ ctor.pc = "253"
    /\ ctor' = Logged([ctor EXCEPT !.pc = "255"], "release", "image_buffer")

\* this->populate_meta_data(image, image_user_for_pass): it reads the image,
\* no image buffer.
PopulateMetaData ==
    /\ ctor.pc = "255"
    /\ ctor' = [ctor EXCEPT !.pc = "returned"]

NextCtor ==
    \/ AcquireInitial /\ UNCHANGED <<cacheVars, pureVars, jack>>
    \/ ReleaseInitial /\ UNCHANGED <<cacheVars, pureVars, jack>>
    \/ EarlyExit /\ UNCHANGED <<cacheVars, pureVars, jack>>
    \/ AcquireImageBuffer /\ UNCHANGED <<cacheVars, pureVars, jack>>
    \/ ComputeLinearBuffer /\ UNCHANGED <<cacheVars, pureVars, jack>>
    \/ SetPrecisionAndType /\ UNCHANGED <<cacheVars, pureVars, jack>>
    \/ FillResult /\ UNCHANGED <<cacheVars, pureVars, jack>>
    \/ FreeLinearBuffer /\ UNCHANGED <<cacheVars, pureVars, jack>>
    \/ ReleaseImageBuffer /\ UNCHANGED <<cacheVars, pureVars, jack>>
    \/ PopulateMetaData /\ UNCHANGED <<cacheVars, pureVars, jack>>

SpecCtor == InitCtor /\ [][NextCtor]_vars

-----------------------------------------------------------------------------
(* JackDevice: the mixing thread (updateRingBuffers), the callbacks JACK calls
   on its own threads while the client is active, and the destructor.
   Positions are the line numbers of the statements. *)

TransportStates == {"JackTransportStopped", "JackTransportRolling", "JackTransportStarting"}

\* The sync times JACK reports: position.frame / position.frame_rate.
SyncTimes == {0, 1}

\* The JackDevice when its constructor returns: the client is active and the
\* mixing thread has been created.
InitJack ==
    /\ InitCache
    /\ context \in {ctx \in CtorContexts : ~use_gpu(ctx)}
    /\ probe = NoProbe
    /\ out = NoProbe
    /\ ctor = NoCtor
    /\ jack = [m_valid |-> TRUE,
               m_lastState |-> "JackTransportStopped",
               m_lastMixState |-> "JackTransportStopped",
               m_syncTime |-> 0,
               m_syncCallRevision |-> 0,
               m_lastSyncCallRevision |-> 0,
               m_rollingSyncRevision |-> 0,
               m_lastRollingSyncRevision |-> 0,
               m_mixingLock |-> "free",
               ringbuffer |-> 0,
               client |-> "active",
               mixing |-> "39",
               destructor |-> "none"]

\* m_mixingCondition.notify_all() on the device j: the threads blocked in
\* wait() at that moment are woken, and nothing is kept for a later wait().
notify_all(j) ==
    IF j.mixing = "blocked" THEN [j EXCEPT !.mixing = "woken"] ELSE j

\* std::unique_lock<std::mutex> lock(m_mixingLock);
MixingLock ==
    /\ jack.mixing = "39"
    /\ jack.m_mixingLock = "free"
    /\ jack' = [jack EXCEPT !.mixing = "41", !.m_mixingLock = "mixing"]

\* while(m_valid): into the body, or out of the loop and of the function,
\* which unlocks.
MixingWhile ==
    /\ jack.mixing = "41"
    /\ jack' = IF jack.m_valid
               THEN [jack EXCEPT !.mixing = "43"]
               ELSE [jack EXCEPT !.mixing = "returned", !.m_mixingLock = "free"]

\* The body of the loop up to the wait: the sync when one is due, then mixing
\* until the ring buffers are full.
MixingBody ==
    /\ jack.mixing = "43"
    /\ \E state \in TransportStates :
           LET sync == \/ jack.m_syncCallRevision # jack.m_lastSyncCallRevision
                       \/ /\ state = "JackTransportStopped"
                          /\ jack.m_lastState # "JackTransportStopped"
           IN  jack' = [jack EXCEPT
                           !.mixing = "88",
                           !.m_lastSyncCallRevision =
                               IF sync THEN jack.m_syncCallRevision ELSE @,
                           !.m_lastState = state,
                           !.ringbuffer = RingSize]

\* m_mixingCondition.wait(lock): unlocks and blocks, in one step.
MixingWait ==
    /\ jack.mixing = "88"
    /\ jack' = [jack EXCEPT !.mixing = "blocked", !.m_mixingLock = "free"]

\* wait() returns after a notification: it locks again.
MixingWoken ==
    /\ jack.mixing = "woken"
    /\ jack.m_mixingLock = "free"
    /\ jack' = [jack EXCEPT !.mixing = "41", !.m_mixingLock = "mixing"]

\* wait() may also return with no notification; nothing makes it do so.
SpuriousWakeup ==
    /\ jack.mixing = "blocked"
    /\ jack' = [jack EXCEPT !.mixing = "woken"]

\* JackDevice::jack_mix, the process callback.
jack_mix ==
    /\ jack.client = "active"
    /\ \E state \in TransportStates, length \in 1..RingSize, syncTime \in SyncTimes :
           LET readsamples == IF jack.ringbuffer < length THEN jack.ringbuffer ELSE length
               changed == state = "JackTransportStopped" /\ syncTime # jack.m_syncTime
               rolling == /\ state = "JackTransportRolling"
                          /\ jack.m_lastMixState # "JackTransportRolling"
           IN  /\ changed => jack.m_syncCallRevision < MaxRevision
               /\ rolling => jack.m_rollingSyncRevision < MaxRevision
               /\ jack' =
                      IF state = "JackTransportStarting"
                      THEN [jack EXCEPT !.m_lastMixState = state]
                      ELSE notify_all(
                               [jack EXCEPT
                                   !.m_rollingSyncRevision = IF rolling THEN @ + 1 ELSE @,
                                   !.ringbuffer = @ - readsamples,
                                   !.m_syncTime = IF changed THEN syncTime ELSE @,
                                   !.m_syncCallRevision = IF changed THEN @ + 1 ELSE @,
                                   !.m_lastMixState = state])

\* JackDevice::jack_sync, the sync callback.
jack_sync ==
    /\ jack.client = "active"
    /\ \E state \in TransportStates, syncTime \in SyncTimes :
           LET needed == \/ syncTime # jack.m_syncTime
                         \/ jack.m_lastMixState = "JackTransportStopped"
                         \/ jack.m_rollingSyncRevision # jack.m_lastRollingSyncRevision
           IN  /\ state # "JackTransportStopped"
               /\ needed
               /\ jack.m_syncCallRevision < MaxRevision
               /\ jack' = [notify_all([jack EXCEPT !.m_syncTime = syncTime,
                                                   !.m_syncCallRevision = @ + 1])
                              EXCEPT !.m_lastRollingSyncRevision =
                                         jack.m_rollingSyncRevision]

\* JackDevice::jack_shutdown: JACK calls it when it drops the client, and no
\* other callback after it.
jack_shutdown ==
    /\ jack.client = "active"
    /\ jack' = [jack EXCEPT !.m_valid = FALSE, !.client = "shutdown"]

\* ~JackDevice begins: if(m_valid) AUD_jack_client_close(m_client); after the
\* close JACK calls no callback.
DestructorClose ==
    /\ jack.destructor = "none"
    /\ jack' = [jack EXCEPT !.destructor = "277",
                            !.client = IF jack.m_valid THEN "closed" ELSE @]

\* m_valid = false;
DestructorInvalidate ==
    /\ jack.destructor = "277"
    /\ jack' = [jack EXCEPT !.destructor = "281", !.m_valid = FALSE]

\* m_mixingCondition.notify_all();
DestructorNotify ==
    /\ jack.destructor = "281"
    /\ jack' = [notify_all(jack) EXCEPT !.destructor = "283"]

\* m_mixingThread.join(): returns once updateRingBuffers has.
DestructorJoin ==
    /\ jack.destructor = "283"
    /\ jack.mixing = "returned"
    /\ jack' = [jack EXCEPT !.destructor = "joined"]

\* The steps of the mixing thread that the scheduler owes it.
MixingThread == MixingLock \/ MixingWhile \/ MixingBody \/ MixingWait \/ MixingWoken

\* The steps of the thread that runs the destructor, once it has begun.
DestructorThread == DestructorInvalidate \/ DestructorNotify \/ DestructorJoin

NextJack ==
    \/ MixingLock /\ UNCHANGED <<cacheVars, pureVars, ctor>>
    \/ MixingWhile /\ UNCHANGED <<cacheVars, pureVars, ctor>>
    \/ MixingBody /\ UNCHANGED <<cacheVars, pureVars, ctor>>
    \/ MixingWait /\ UNCHANGED <<cacheVars, pureVars, ctor>>
    \/ MixingWoken /\ UNCHANGED <<cacheVars, pureVars, ctor>>
    \/ SpuriousWakeup /\ UNCHANGED <<cacheVars, pureVars, ctor>>
    \/ jack_mix /\ UNCHANGED <<cacheVars, pureVars, ctor>>
    \/ jack_sync /\ UNCHANGED <<cacheVars, pureVars, ctor>>
    \/ jack_shutdown /\ UNCHANGED <<cacheVars, pureVars, ctor>>
    \/ DestructorClose /\ UNCHANGED <<cacheVars, pureVars, ctor>>
    \/ DestructorInvalidate /\ UNCHANGED <<cacheVars, pureVars, ctor>>
    \/ DestructorNotify /\ UNCHANGED <<cacheVars, pureVars, ctor>>
    \/ DestructorJoin /\ UNCHANGED <<cacheVars, pureVars, ctor>>

\* Both threads are scheduled again and again while they can take a step; the
\* callbacks come when JACK decides, or never.
SpecJack ==
    /\ InitJack
    /\ [][NextJack]_vars
    /\ WF_vars(MixingThread /\ UNCHANGED <<cacheVars, pureVars, ctor>>)
    /\ WF_vars(DestructorThread /\ UNCHANGED <<cacheVars, pureVars, ctor>>)

-----------------------------------------------------------------------------
(* The pure functions of the key and of the owner identity, applied to
   enumerated inputs. *)

KeyInputs ==
    { CachedImageKey(image_user, pass_name) :
        image_user \in [framenr : {1, 2}, layer : {0, 1}, view : {0, 1}, pass : {0, 1}],
        pass_name \in {Combined, Depth} }

\* The container is left alone, freshly constructed.
IdleCache ==
    /\ InitCache
    /\ context = [id_recalc |-> [id \in ImageIDs |-> {}], use_gpu |-> FALSE,
                  view_name |-> ""]

InitKey ==
    /\ IdleCache
    /\ probe \in [kind : {"key"}, a : KeyInputs, b : KeyInputs]
    /\ out = NoProbe
    /\ NoSteps

\* a == b, a.hash() and b.hash()
CompareKeys ==
    /\ probe.kind = "key"
    /\ out = NoProbe
    /\ out' = [eq |-> KeyEq(probe.a, probe.b),
               hash_a |-> hash(probe.a), hash_b |-> hash(probe.b)]
    /\ UNCHANGED probe

NextKey == CompareKeys /\ UNCHANGED <<cacheVars, stepVars>>

SpecKey == InitKey /\ [][NextKey]_vars

\* The strings over alphabet of length 1..n.
RECURSIVE Strings(_, _)
Strings(alphabet, n) ==
    IF n = 0 THEN {}
    ELSE LET shorter == Strings(alphabet, n - 1)
         IN  shorter \cup {<<c>> : c \in alphabet}
                 \cup {Append(x, c) : x \in {y \in shorter : Len(y) = n - 1}, c \in alphabet}

\* ID names carry the two-letter code of their type: "IM" for images, "LI" for
\* libraries.
OwnerImageIDs ==
    [name : {<<"I", "M">> \o body : body \in Strings({"b", "L", "I"}, MaxNameLen)},
     lib : {NULL} \cup {[id |-> [name |-> <<"L", "I">> \o body]] :
                            body \in Strings({"b"}, MaxLibLen)}]

InitOwner ==
    /\ IdleCache
    /\ probe \in [kind : {"owner"}, a : [id : OwnerImageIDs], b : [id : OwnerImageIDs]]
    /\ out = NoProbe
    /\ NoSteps

\* The id_key get() computes for each of two images.
ComputeIdKeys ==
    /\ probe.kind = "owner"
    /\ out = NoProbe
    /\ out' = [id_key_a |-> IdKey(probe.a), id_key_b |-> IdKey(probe.b)]
    /\ UNCHANGED probe

NextOwner == ComputeIdKeys /\ UNCHANGED <<cacheVars, stepVars>>

SpecOwner == InitOwner /\ [][NextOwner]_vars

-----------------------------------------------------------------------------
(* Node graph utilities (source/blender/compositor/intern/utilities.cc).

   The derived node tree is what the utilities read of it.  A socket is named
   by its node, its side and its index.  An input socket comes with what
   is_logically_linked() reports and with the origins foreach_origin_socket()
   visits, in order; an output socket with what is_logically_linked() reports
   and with the targets foreach_target_socket() visits, in order.  A socket that
   is not logically linked has nothing to visit. *)

\* DSocket of the socket numbered index on the given side of node.
DSocket(node, in_out, index) == [node |-> node, in_out |-> in_out, index |-> index]

\* bNodeSocket::is_input()
is_input(socket) == socket.in_out = "SOCK_IN"

\* DOutputSocket(): the null output socket.
DOutputSocket == NULL

\* DInputSocket::foreach_origin_socket(origin_fn), with the callback of
\* get_input_origin_socket, `socket = origin': the value of socket after the
\* origins were visited in order, starting from the null DSocket.
RECURSIVE foreach_origin_socket(_, _)
foreach_origin_socket(origins, socket) ==
    IF origins = <<>> THEN socket
    ELSE foreach_origin_socket(Tail(origins), Head(origins))

\* A get_input_origin_socket that keeps the first origin visited.
get_input_origin_socket_first(input) ==
    IF ~input.is_logically_linked
    THEN input.socket
    ELSE Head(input.origins)

\* get_input_origin_socket(input)
get_input_origin_socket(input) ==
    IF ~input.is_logically_linked
    THEN input.socket
    ELSE foreach_origin_socket(input.origins, NULL)

\* A get_output_linked_to_input that does not look at the side of the origin.
get_output_linked_to_input_unchecked(input) == get_input_origin_socket(input)

\* A get_output_linked_to_input whose test of the origin's side is inverted.
get_output_linked_to_input_inverted(input) ==
    LET origin == get_input_origin_socket(input)
    IN  IF is_input(origin) THEN origin ELSE DOutputSocket

\* get_output_linked_to_input(input)
get_output_linked_to_input(input) ==
    LET origin == get_input_origin_socket(input)
    IN  IF is_input(origin) THEN DOutputSocket ELSE origin

\* A mapping that takes SOCK_INT for a float.
get_node_socket_result_type_no_int(socket) ==
    CASE socket.type = "SOCK_FLOAT" -> [type |-> "Float", unreachable |-> FALSE]
      [] socket.type = "SOCK_VECTOR" -> [type |-> "Vector", unreachable |-> FALSE]
      [] socket.type = "SOCK_RGBA" -> [type |-> "Color", unreachable |-> FALSE]
      [] OTHER -> [type |-> "Float", unreachable |-> socket.type # "SOCK_INT"]

\* get_node_socket_result_type(socket): the type returned, and whether
\* BLI_assert_unreachable() was passed on the way, which ends the program when
\* assertions are enabled and does nothing when they are not.
get_node_socket_result_type(socket) ==
    CASE socket.type = "SOCK_FLOAT" -> [type |-> "Float", unreachable |-> FALSE]
      [] socket.type = "SOCK_INT" -> [type |-> "Int", unreachable |-> FALSE]
      [] socket.type = "SOCK_VECTOR" -> [type |-> "Vector", unreachable |-> FALSE]
      [] socket.type = "SOCK_RGBA" -> [type |-> "Color", unreachable |-> FALSE]
      [] OTHER -> [type |-> "Float", unreachable |-> TRUE]

\* static_cast<InputRealizationMode>(mode): the enumerator with the same value.
InputRealizationMode(mode) ==
    CASE mode = 0 -> "None" [] mode = 1 -> "Transforms" [] mode = 2 -> "OperationDomain"

\* InputDescriptor as default-constructed.
InputDescriptor ==
    [type |-> "Float", domain_priority |-> 0, expects_single_value |-> FALSE,
     realization_mode |-> "OperationDomain"]

\* An input_descriptor_from_input_socket that reads the first input declaration
\* whatever the index of the socket.
input_descriptor_from_first_declaration(socket) ==
    LET node_declaration == socket.owner_node.declaration
        typed == [InputDescriptor EXCEPT !.type = get_node_socket_result_type(socket).type]
    IN  IF node_declaration = NULL THEN typed
        ELSE LET socket_declaration == node_declaration.inputs[1]
             IN  [typed EXCEPT
                     !.domain_priority = socket_declaration.compositor_domain_priority,
                     !.expects_single_value =
                         socket_declaration.compositor_expects_single_value,
                     !.realization_mode = InputRealizationMode(
                         socket_declaration.compositor_realization_mode)]

\* input_descriptor_from_input_socket(socket).  socket->index() counts from 0,
\* sequences from 1.
input_descriptor_from_input_socket(socket) ==
    LET node_declaration == socket.owner_node.declaration
        typed == [InputDescriptor EXCEPT !.type = get_node_socket_result_type(socket).type]
    IN  IF node_declaration = NULL THEN typed
        ELSE LET socket_declaration == node_declaration.inputs[socket.index + 1]
             IN  [typed EXCEPT
                     !.domain_priority = socket_declaration.compositor_domain_priority,
                     !.expects_single_value =
                         socket_declaration.compositor_expects_single_value,
                     !.realization_mode = InputRealizationMode(
                         socket_declaration.compositor_realization_mode)]

\* DOutputSocket::foreach_target_socket(target_fn), with the callback of
\* is_output_linked_to_node_conditioned: each target in turn is handed to the
\* callback, which evaluates condition on the node of the target and, when it
\* holds, sets condition_satisfied and returns to the traversal.  A condition
\* is the set of the nodes on which it holds; evaluated lists the nodes it was
\* called on.
RECURSIVE foreach_target_socket_node_conditioned(_, _, _)
foreach_target_socket_node_conditioned(targets, condition, state) ==
    IF targets = <<>> THEN state
    ELSE LET target == Head(targets)
             called == [state EXCEPT !.evaluated = Append(@, target.node)]
         IN  foreach_target_socket_node_conditioned(
                 Tail(targets), condition,
                 IF target.node \in condition
                 THEN [called EXCEPT !.condition_satisfied = TRUE]
                 ELSE called)

\* A traversal that looks at the first target only.
is_output_linked_to_first_node_conditioned(output, condition) ==
    foreach_target_socket_node_conditioned(
        IF output.targets = <<>> THEN <<>> ELSE <<Head(output.targets)>>, condition,
        [condition_satisfied |-> FALSE, evaluated |-> <<>>])

\* is_output_linked_to_node_conditioned(output, condition): what it returns,
\* and the calls of condition it made.
is_output_linked_to_node_conditioned(output, condition) ==
    foreach_target_socket_node_conditioned(
        output.targets, condition, [condition_satisfied |-> FALSE, evaluated |-> <<>>])

\* The same traversal with the callback of
\* number_of_inputs_linked_to_output_conditioned, whose condition is the set of
\* the input sockets on which it holds.
RECURSIVE foreach_target_socket_count_conditioned(_, _, _)
foreach_target_socket_count_conditioned(targets, condition, state) ==
    IF targets = <<>> THEN state
    ELSE LET target == Head(targets)
             called == [state EXCEPT !.evaluated = Append(@, target)]
         IN  foreach_target_socket_count_conditioned(
                 Tail(targets), condition,
                 IF target \in condition
                 THEN [called EXCEPT !.count = @ + 1]
                 ELSE called)

\* A count that stops at the first target found.
number_of_inputs_at_most_one(output, condition) ==
    LET all == foreach_target_socket_count_conditioned(
                   output.targets, condition, [count |-> 0, evaluated |-> <<>>])
    IN  [all EXCEPT !.count = IF @ > 1 THEN 1 ELSE @]

\* number_of_inputs_linked_to_output_conditioned(output, condition): what it
\* returns, and the calls of condition it made.
number_of_inputs_linked_to_output_conditioned(output, condition) ==
    IF ~output.is_logically_linked
    THEN [count |-> 0, evaluated |-> <<>>]
    ELSE foreach_target_socket_count_conditioned(
             output.targets, condition, [count |-> 0, evaluated |-> <<>>])

\* A preview test that does not look at NODE_HIDDEN.
is_node_preview_needed_hidden_too(node) ==
    /\ "NODE_PREVIEW" \in node.flag
    /\ node.context.instance_key.value =
           node.context.derived_tree.active_context.instance_key.value

\* is_node_preview_needed(node).  node->flag is the set of its bits.
is_node_preview_needed(node) ==
    IF ~("NODE_PREVIEW" \in node.flag) THEN FALSE
    ELSE IF "NODE_HIDDEN" \in node.flag THEN FALSE
    ELSE IF node.context.instance_key.value #
                node.context.derived_tree.active_context.instance_key.value
    THEN FALSE
    ELSE TRUE

\* The loop of find_preview_output_socket over node->output_sockets(), from the
\* output numbered index on.
RECURSIVE first_linked_output(_, _)
first_linked_output(node, index) ==
    IF index >= Len(node.output_sockets) THEN DOutputSocket
    ELSE IF node.output_sockets[index + 1].is_logically_linked
    THEN DSocket(node.name, "SOCK_OUT", index)
    ELSE first_linked_output(node, index + 1)

\* A find_preview_output_socket that does not ask whether a preview is needed.
find_preview_output_socket_always(node) == first_linked_output(node, 0)

\* find_preview_output_socket(node)
find_preview_output_socket(node) ==
    IF ~is_node_preview_needed(node) THEN DOutputSocket
    ELSE first_linked_output(node, 0)

-----------------------------------------------------------------------------
(* The utilities applied to enumerated sockets and nodes (SpecGraph). *)

\* The sequences over S of length 0..n, and those that repeat no element.
SeqsUpTo(S, n) == UNION {[1..k -> S] : k \in 0..n}
DistinctSeqsUpTo(S, n) ==
    {q \in SeqsUpTo(S, n) : \A i, j \in 1..Len(q) : q[i] = q[j] => i = j}

NodeNames == {"A", "B"}

\* What an origin traversal can visit: outputs of nodes and, for an input
\* that is fed by an unconnected input of a group node, that input.
OriginSockets ==
    {DSocket(n, "SOCK_OUT", 0) : n \in NodeNames} \cup {DSocket("G", "SOCK_IN", 0)}

\* Input sockets of a node C.
InputSockets ==
    [socket : {DSocket("C", "SOCK_IN", i) : i \in {0, 1}},
     is_logically_linked : {FALSE}, origins : {<<>>}]
    \cup
    [socket : {DSocket("C", "SOCK_IN", i) : i \in {0, 1}},
     is_logically_linked : {TRUE}, origins : SeqsUpTo(OriginSockets, MaxOrigins) \ {<<>>}]

\* DTreeContext: its instance key and that of the active context of its tree.
TreeContexts ==
    {[instance_key |-> [value |-> k],
      derived_tree |-> [active_context |-> [instance_key |-> [value |-> a]]]] :
        k \in {1, 2}, a \in {1, 2}}

\* Nodes as is_node_preview_needed reads them.
PreviewNodes ==
    [flag : SUBSET {"NODE_PREVIEW", "NODE_HIDDEN", "NODE_SELECT"}, context : TreeContexts]

\* Nodes as find_preview_output_socket reads them.
OutputNodes ==
    [name : {"A"}, flag : SUBSET {"NODE_PREVIEW", "NODE_HIDDEN"}, context : TreeContexts,
     output_sockets : SeqsUpTo([is_logically_linked : BOOLEAN], MaxOutputs)]

SocketTypes ==
    {"SOCK_FLOAT", "SOCK_INT", "SOCK_VECTOR", "SOCK_RGBA", "SOCK_BOOLEAN", "SOCK_SHADER"}

TypedSockets == [type : SocketTypes, index : {0, 1}]

\* SocketDeclaration: what the compositor reads of it.
SocketDeclarations ==
    [compositor_domain_priority : {0, 1}, compositor_expects_single_value : BOOLEAN,
     compositor_realization_mode : {0, 1, 2}]

\* Input sockets of a node without declaration, and of a node whose
\* declaration has an entry for each of its inputs.
DeclaredSockets ==
    [type : {"SOCK_FLOAT", "SOCK_RGBA"}, index : {0, 1},
     owner_node : {[declaration |-> NULL]}]
    \cup
    UNION {[type : {"SOCK_FLOAT", "SOCK_RGBA"}, index : 0 .. (Len(inputs) - 1),
            owner_node : {[declaration |-> [inputs |-> inputs]]}] :
               inputs \in SeqsUpTo(SocketDeclarations, MaxDeclared) \ {<<>>}}

\* The input sockets a target traversal can visit.
TargetSockets == {DSocket(n, "SOCK_IN", i) : n \in NodeNames, i \in {0, 1}}

\* Output sockets: linked ones with the targets the traversal visits, which
\* may be none, and one that is not linked.
OutputSockets ==
    [is_logically_linked : {TRUE}, targets : DistinctSeqsUpTo(TargetSockets, MaxTargets)]
    \cup {[is_logically_linked |-> FALSE, targets |-> <<>>]}

GraphProbes ==
    [kind : {"origin"}, input : InputSockets]
    \cup [kind : {"preview"}, a : PreviewNodes, b : PreviewNodes]
    \cup [kind : {"preview_output"}, node : OutputNodes]
    \cup [kind : {"result_type"}, socket : TypedSockets]
    \cup [kind : {"descriptor"}, socket : DeclaredSockets]
    \cup [kind : {"linked"}, output : OutputSockets, condition : SUBSET NodeNames]
    \cup [kind : {"count"}, output : OutputSockets, condition : SUBSET TargetSockets]
    \cup [kind : {"linked_and_count"}, output : OutputSockets,
                                       condition : SUBSET NodeNames]

InitGraph ==
    /\ IdleCache
    /\ probe \in GraphProbes
    /\ out = NoProbe
    /\ NoSteps

\* The result r of the utility that takes probes of the given kind.
Apply(kind, r) ==
    /\ probe.kind = kind
    /\ out = NoProbe
    /\ out' = r
    /\ UNCHANGED probe

ResolveOrigin ==
    Apply("origin", [origin |-> get_input_origin_socket(probe.input),
                     output |-> get_output_linked_to_input(probe.input)])

PreviewNeeded ==
    Apply("preview", [a |-> is_node_preview_needed(probe.a),
                      b |-> is_node_preview_needed(probe.b)])

FindPreviewOutput ==
    Apply("preview_output", [output |-> find_preview_output_socket(probe.node)])

SocketResultType ==
    Apply("result_type", get_node_socket_result_type(probe.socket))

DescribeInput ==
    Apply("descriptor", [descriptor |-> input_descriptor_from_input_socket(probe.socket)])

LinkedConditioned ==
    Apply("linked", is_output_linked_to_node_conditioned(probe.output, probe.condition))

CountConditioned ==
    Apply("count",
          number_of_inputs_linked_to_output_conditioned(probe.output, probe.condition))

\* Both traversals on one output, the counting one with the condition
\* `condition(target.node())' on the input sockets.
LinkedAndCountConditioned ==
    Apply("linked_and_count",
          [linked |-> is_output_linked_to_node_conditioned(probe.output, probe.condition),
           number |-> number_of_inputs_linked_to_output_conditioned(
                          probe.output,
                          {target \in TargetSockets : target.node \in probe.condition})])

NextGraph ==
    \/ ResolveOrigin /\ UNCHANGED <<cacheVars, stepVars>>
    \/ PreviewNeeded /\ UNCHANGED <<cacheVars, stepVars>>
    \/ FindPreviewOutput /\ UNCHANGED <<cacheVars, stepVars>>
    \/ SocketResultType /\ UNCHANGED <<cacheVars, stepVars>>
    \/ DescribeInput /\ UNCHANGED <<cacheVars, stepVars>>
    \/ LinkedConditioned /\ UNCHANGED <<cacheVars, stepVars>>
    \/ CountConditioned /\ UNCHANGED <<cacheVars, stepVars>>
    \/ LinkedAndCountConditioned /\ UNCHANGED <<cacheVars, stepVars>>

SpecGraph == InitGraph /\ [][NextGraph]_vars

-----------------------------------------------------------------------------
(* Properties of the container (Spec). *)

NonNullGet(c) == c.op = "get" /\ ~c.null

\* C1: for any (owner, key) pair, the get() calls made for it since the last
\* reset(), however many and however interleaved with other get() calls,
\* invoked the factory exactly once.
C1_FactoryOncePerPass == \A p \in Requested : passBuilds[p] = 1

\* C2: every get() with a non-null image and image user ends with an entry for
\* its (owner, key) pair in the cache, marked needed, and returns that entry's
\* resource: on a miss the resource the factory just built, on a hit the
\* resource the entry already held, with no factory invocation.
C2_GetReturnsNeededEntry ==
    [][NonNullGet(call') =>
          LET p == call'.pair
              hit == ~call'.recalc /\ EntriesOf(map_, p) # {}
          IN  /\ EntriesOf(map_', p) # {}
              /\ \A it \in EntriesOf(map_', p) : it.value.needed /\ it.value.result = ret'
              /\ hit => /\ built' = built
                        /\ \A it \in EntriesOf(map_, p) : it.value.result = ret'
              /\ ~hit => /\ built' = built + 1
                         /\ ret'.id = built'
                         /\ ret'.id \notin LiveIds]_vars

\* A get() that hit an entry built in an earlier pass.
C2_Witness ==
    /\ NonNullGet(call)
    /\ call.acquired = "not invoked"
    /\ ret.allocated
    /\ ret.id < built
    /\ passBuilds[call.pair] = 0

\* C3: reset() removes exactly the entries that are not needed, then every
\* owner whose map became empty, keeps every needed entry with its key and
\* resource unchanged, and leaves the survivors not needed.
C3_ResetPrunes ==
    [][call'.op = "reset" =>
          /\ DOMAIN map_' = {k \in DOMAIN map_ : \E it \in map_[k] : it.value.needed}
          /\ \A k \in DOMAIN map_' :
                 map_'[k] = {[key |-> it.key,
                              value |-> [result |-> it.value.result,
                                         texture_ |-> it.value.texture_,
                                         pixels |-> it.value.pixels,
                                         needed |-> FALSE]] :
                                 it \in {x \in map_[k] : x.value.needed}}
          /\ built' = built]_vars

\* A reset() that removed a whole owner and kept an entry of another.
C3_Witness ==
    /\ call.op = "reset"
    /\ Present # {}
    /\ \E p \in evicted : p[1] \notin DOMAIN map_

\* C4: every entry left after a reset() was requested by a get() since the
\* reset() before it, and every requested entry that was still cached is left;
\* the first get() for an evicted pair invokes the factory again.
C4_Eviction ==
    [][/\ call'.op = "reset" =>
              /\ PairsOf(map_') \subseteq Requested
              /\ Requested \cap Present \subseteq PairsOf(map_')
       /\ (NonNullGet(call') /\ call'.pair \in evicted /\ call'.pair \notin Requested) =>
              /\ built' = built + 1
              /\ ret'.id = built']_vars

\* get(A), get(B), reset(), get(A), reset(), get(A), get(B): B was evicted by the
\* second reset() and is built again, A is still served from the cache.
C4_Witness ==
    /\ NonNullGet(call)
    /\ call.pair \in evicted
    /\ call.acquired # "not invoked"
    /\ \E q \in Requested \cap Present :
           /\ q[1] = call.pair[1]
           /\ q # call.pair
           /\ passBuilds[q] = 0

\* C5: a get() whose context reports a recalculation flag for the image removes
\* every entry of that owner, whatever its key, and invokes the factory, so that
\* afterwards the owner holds the requested entry alone, freshly built.
C5_Invalidation ==
    [][(NonNullGet(call') /\ call'.recalc) =>
          LET o == call'.pair[1]
          IN  /\ built' = built + 1
              /\ ret'.id = built'
              /\ {p \in PairsOf(map_') : p[1] = o} = {call'.pair}
              /\ o \in DOMAIN map_ =>
                     \A it \in map_[o] : it.value.result.id \notin
                         {x.value.result.id : x \in Items(map_')}]_vars

\* An invalidating get() after which another key of the same owner, requested
\* earlier in the pass, has no entry any more, while another owner keeps its own.
C5_Witness ==
    /\ NonNullGet(call)
    /\ call.recalc
    /\ \E q \in Requested \ Present : q[1] = call.pair[1] /\ q # call.pair
    /\ \E q \in Present : q[1] # call.pair[1]

\* C6: no resource returned by get() since the last reset() has been destroyed.
C6_ReturnedStaysValid == handedOut \subseteq LiveIds

C10_OneEntryPerPair ==
    \A k \in DOMAIN map_ : \A a, b \in map_[k] :
        KeyFields(a.key) = KeyFields(b.key) => a = b

\* Two entries of one owner, the last get() a hit.
C10_Witness ==
    /\ NonNullGet(call)
    /\ call.acquired = "not invoked"
    /\ \E k \in DOMAIN map_ : Cardinality(map_[k]) >= 2

\* C11: right after a reset() the cache holds exactly the pairs that get() was
\* given during the pass the reset() ended and that still had an entry at its
\* end; at any time every entry belongs to a pair requested in the pass under
\* way or in the pass before it.
C11_WorkingSet ==
    /\ call.op = "reset" => Present = {p \in DOMAIN lastPass : lastPass[p].ids # {}}
    /\ Present \subseteq (DOMAIN lastPass \cup Requested)

\* A reset() that kept an entry and dropped an owner, after a pass that had
\* requested a pair whose entry an invalidation had already destroyed.
C11_Witness ==
    /\ call.op = "reset"
    /\ Present # {}
    /\ evicted # {}
    /\ \E p \in DOMAIN lastPass : lastPass[p].ids = {}

\* C20: a get() for a pair that was also requested in the pass before, with no
\* recalculation flag for its owner in either pass, does not invoke the factory
\* and returns the resource the pair had in the pass before.
C20_ReuseAcrossPasses ==
    (/\ NonNullGet(call)
     /\ ~call.recalc
     /\ call.pair \in DOMAIN lastPass
     /\ ~lastPass[call.pair].recalc)
        => /\ call.acquired = "not invoked"
           /\ passBuilds[call.pair] = 0
           /\ lastPass[call.pair].ids = {ret.id}

\* A get() served the resource of the pass before, which had requested two
\* pairs.
C20_Witness ==
    /\ NonNullGet(call)
    /\ ~call.recalc
    /\ call.pair \in DOMAIN lastPass
    /\ ~lastPass[call.pair].recalc
    /\ call.acquired = "not invoked"
    /\ ret.allocated
    /\ ret.id < built
    /\ Cardinality(DOMAIN lastPass) >= 2

\* C24: a get() leaves the entries of every other owner as they were, with
\* their resources and needed flags, whether or not it invalidates its own
\* owner; without a recalculation flag it also leaves as they were the entries
\* of its own owner for other keys.
C24_GetFrame ==
    [][NonNullGet(call') =>
          LET o == call'.pair[1]
              others(m) == IF o \in DOMAIN m
                           THEN {it \in m[o] : KeyFields(it.key) # call'.pair[2]}
                           ELSE {}
          IN  /\ DOMAIN map_' = DOMAIN map_ \cup {o}
              /\ \A k \in DOMAIN map_ \ {o} : map_'[k] = map_[k]
              /\ ~call'.recalc => others(map_') = others(map_)]_vars

\* An invalidating get() while another owner holds an entry kept from the pass
\* before and not requested since.
C24_Witness ==
    /\ NonNullGet(call)
    /\ call.recalc
    /\ \E k \in DOMAIN map_ \ {call.pair[1]} : \E it \in map_[k] : ~it.value.needed
    /\ Cardinality(Requested) = 2

\* C21: a get() that hits a cached entry returns the data the factory would
\* read if it were invoked for that call: the entry was built from the image
\* buffer of the same frame, layer, pass and resolved view, where view 0 ("All")
\* is resolved through the name of the view the context renders.
C21_HitReadsSameData ==
    (NonNullGet(call) /\ call.acquired = "not invoked") =>
        \A it \in EntriesOf(map_, call.pair) :
            it.value.pixels =
                compute_image_user_for_pass(context, MultiViewImage, it.key.image_user,
                                            it.key.pass_name)

\* C25: after every call, each owner stored in the cache has at least one
\* entry.
C25_NoEmptyOwner == \A k \in DOMAIN map_ : map_[k] # {}

\* A reset() has just removed the last entries of one owner, and the owner with
\* them, while another owner stays.
C25_Witness ==
    /\ call.op = "reset"
    /\ Cardinality(DOMAIN map_) = 1
    /\ \E p \in evicted : p[1] \notin DOMAIN map_
    /\ \A p \in Present : p \in DOMAIN lastPass

-----------------------------------------------------------------------------
(* Properties of the container on either device (SpecDevice). *)

\* The CachedImage objects held by the map m.
ValuesOf(m) == {it.value : it \in UNION {m[k] : k \in DOMAIN m}}

\* The releases recorded for the object numbered id.
ReleasesOf(log, id) == IF id \in DOMAIN log THEN log[id] ELSE [result |-> 0, texture |-> 0]

\* C12: in every step, get(), reset() or the destruction of the container, an
\* object that stays in the cache has had nothing released; an object the step
\* removes has its result released once and its texture freed once if it has
\* one, and none otherwise; nothing more is released of an object removed
\* earlier.  The object a get() builds has a texture exactly when it is built
\* on the GPU from an image buffer, so that nothing built on the CPU ever has a
\* texture freed.
C12_ReleasedOnceWhenRemoved ==
    [][/\ \A v \in ValuesOf(map_') :
              ReleasesOf(released', v.result.id) = [result |-> 0, texture |-> 0]
       /\ \A v \in ValuesOf(map_) :
              v.result.id \notin {w.result.id : w \in ValuesOf(map_')} =>
                  ReleasesOf(released', v.result.id) =
                      [result |-> 1, texture |-> IF v.texture_ # NULL THEN 1 ELSE 0]
       /\ \A id \in DOMAIN released : released'[id] = released[id]
       /\ DOMAIN released' = (1 .. built') \ {v.result.id : v \in ValuesOf(map_')}
       /\ \A v \in ValuesOf(map_') :
              v.result.id = built' /\ built' # built =>
                  (v.texture_ # NULL <=> (use_gpu(context) /\ call'.acquired = "ibuf"))]_vars

\* The container is destroyed while it holds two objects, after a third one
\* was removed; of the first two objects built, one had a texture to free and
\* the other had none.
C12_Witness ==
    /\ call.op = "destroy"
    /\ \E a, b, c \in DOMAIN released :
           /\ released[a] = [result |-> 1, texture |-> 1]
           /\ released[b] = [result |-> 1, texture |-> 0]
           /\ <<a, b, c>> = <<1, 2, 3>> \/ <<a, b, c>> = <<2, 1, 3>>
    /\ Cardinality(evicted) = 2

\* C22: a reset() that follows a reset() with no get() for an image in between
\* leaves the cache without owners and entries, and every get() on the empty
\* cache invokes the factory.
C22_SecondResetEmpties ==
    [][/\ (call'.op = "reset" /\ Requested = {}) => map_' = <<>>
       /\ (NonNullGet(call') /\ map_ = <<>>) =>
              /\ call'.acquired # "not invoked"
              /\ built' = built + 1]_vars

\* The second of two reset() calls has removed two entries that the first one
\* had kept.
C22_Witness ==
    /\ call.op = "reset"
    /\ map_ = <<>>
    /\ lastPass = <<>>
    /\ Cardinality(evicted) = 2

\* C23: get() with a null image or a null image user returns an empty result,
\* invokes no factory and destructor, and leaves every owner and every entry of
\* the cache as it was, needed flags included.
C23_NullGetChangesNothing ==
    [][(call'.op = "get" /\ call'.null) =>
          /\ ~ret'.allocated
          /\ map_' = map_
          /\ built' = built
          /\ released' = released
          /\ passBuilds' = passBuilds]_vars

\* A null get() right after a reset() that kept an entry: the entry is still
\* there and still not needed.
C23_Witness ==
    /\ call.op = "get"
    /\ call.null
    /\ Requested = {}
    /\ \E v \in ValuesOf(map_) : ~v.needed /\ v.result.allocated

-----------------------------------------------------------------------------
(* Properties of the node graph utilities (SpecGraph). *)

Applied(kind) == probe.kind = kind /\ out # NoProbe

\* C13: for an input socket that is not logically linked,
\* get_input_origin_socket returns the input socket itself and
\* get_output_linked_to_input returns the null output socket.
C13_UnlinkedInputHasNoOutput ==
    (Applied("origin") /\ ~probe.input.is_logically_linked) =>
        /\ out.origin = probe.input.socket
        /\ is_input(out.origin)
        /\ out.output = DOutputSocket

\* An input that is not logically linked was resolved.
C13_Witness ==
    /\ Applied("origin")
    /\ ~probe.input.is_logically_linked
    /\ out.output = NULL
    /\ out.origin.index = 1

\* The three conditions of a preview: the preview flag, the hidden flag, and
\* equal instance keys of the node's context and of the active context.
PreviewConditions(node) ==
    <<"NODE_PREVIEW" \in node.flag,
      "NODE_HIDDEN" \in node.flag,
      node.context.instance_key.value =
          node.context.derived_tree.active_context.instance_key.value>>

\* C14: is_node_preview_needed is true exactly for a node with the preview
\* flag, without the hidden flag and with the instance key of the active
\* context; a node that differs from such a node in one of the three conditions
\* gets false.
C14_PreviewNeeded ==
    Applied("preview") =>
        /\ out.a <=> PreviewConditions(probe.a) = <<TRUE, FALSE, TRUE>>
        /\ (/\ out.a
            /\ Cardinality({i \in 1..3 :
                   PreviewConditions(probe.a)[i] # PreviewConditions(probe.b)[i]}) = 1)
               => ~out.b

\* A node that needs a preview and the same node hidden.
C14_Witness ==
    /\ Applied("preview")
    /\ out.a
    /\ ~out.b
    /\ probe.b = [probe.a EXCEPT !.flag = @ \cup {"NODE_HIDDEN"}]

\* C15: find_preview_output_socket returns the logically linked output of
\* lowest index of a node that needs a preview, and the null output socket for
\* a node that needs none or has no logically linked output.
C15_FirstLinkedOutput ==
    Applied("preview_output") =>
        LET node == probe.node
            linked == {i \in 1..Len(node.output_sockets) :
                          node.output_sockets[i].is_logically_linked}
        IN  IF PreviewConditions(node) = <<TRUE, FALSE, TRUE>> /\ linked # {}
            THEN /\ out.output # NULL
                 /\ out.output = DSocket(node.name, "SOCK_OUT", out.output.index)
                 /\ out.output.index + 1 \in linked
                 /\ \A i \in linked : out.output.index + 1 <= i
            ELSE out.output = DOutputSocket

\* The second of three outputs is returned: the first is not linked, the
\* third is.
C15_Witness ==
    /\ Applied("preview_output")
    /\ out.output # NULL
    /\ out.output.index = 1
    /\ Len(probe.node.output_sockets) = 3
    /\ probe.node.output_sockets[3].is_logically_linked

\* C16: get_node_socket_result_type depends on the type of the socket alone:
\* Float, Int, Vector and Color for SOCK_FLOAT, SOCK_INT, SOCK_VECTOR and
\* SOCK_RGBA, and for any other type the unreachable assertion, then Float.
C16_ResultType ==
    Applied("result_type") =>
        LET type == probe.socket.type
        IN  /\ type = "SOCK_FLOAT" => out = [type |-> "Float", unreachable |-> FALSE]
            /\ type = "SOCK_INT" => out = [type |-> "Int", unreachable |-> FALSE]
            /\ type = "SOCK_VECTOR" => out = [type |-> "Vector", unreachable |-> FALSE]
            /\ type = "SOCK_RGBA" => out = [type |-> "Color", unreachable |-> FALSE]
            /\ type \notin {"SOCK_FLOAT", "SOCK_INT", "SOCK_VECTOR", "SOCK_RGBA"} =>
                   out = [type |-> "Float", unreachable |-> TRUE]

\* A boolean socket: the assertion, then Float.
C16_Witness ==
    /\ Applied("result_type")
    /\ probe.socket.type = "SOCK_BOOLEAN"
    /\ out.type = "Float"
    /\ out.unreachable

\* C17: the descriptor has the result type of the socket's type; without a
\* node declaration it has domain priority 0, expects no single value and has
\* the default realization mode; with a declaration these three come from the
\* input declaration at the socket's index.
C17_InputDescriptor ==
    Applied("descriptor") =>
        LET socket == probe.socket
            declaration == socket.owner_node.declaration
            d == out.descriptor
        IN  /\ socket.type = "SOCK_FLOAT" => d.type = "Float"
            /\ socket.type = "SOCK_RGBA" => d.type = "Color"
            /\ declaration = NULL =>
                   /\ d.domain_priority = 0
                   /\ ~d.expects_single_value
                   /\ d.realization_mode = InputDescriptor.realization_mode
            /\ declaration # NULL =>
                   LET own == declaration.inputs[socket.index + 1]
                   IN  /\ d.domain_priority = own.compositor_domain_priority
                       /\ d.expects_single_value = own.compositor_expects_single_value
                       /\ d.realization_mode =
                              InputRealizationMode(own.compositor_realization_mode)

\* The second input of a node that declares its two inputs differently.
C17_Witness ==
    /\ Applied("descriptor")
    /\ probe.socket.index = 1
    /\ probe.socket.owner_node.declaration # NULL
    /\ probe.socket.owner_node.declaration.inputs[1].compositor_domain_priority = 0
    /\ out.descriptor.domain_priority = 1
    /\ out.descriptor.expects_single_value
    /\ out.descriptor.realization_mode = "Transforms"

\* C18: is_output_linked_to_node_conditioned does not evaluate the condition
\* on any target visited after a target whose node satisfies it.
C18_ShortCircuits ==
    Applied("linked") =>
        \A i, j \in 1..Len(out.evaluated) :
            i < j => out.evaluated[i] \notin probe.condition

\* C19: for a logically linked output,
\* number_of_inputs_linked_to_output_conditioned evaluates the condition once
\* on each target visited and returns the number of those that satisfy it; for
\* an output that is not logically linked it returns 0 and evaluates nothing.
C19_CountConditioned ==
    Applied("count") =>
        IF probe.output.is_logically_linked
        THEN /\ out.evaluated = probe.output.targets
             /\ out.count = Cardinality({i \in 1..Len(probe.output.targets) :
                                            probe.output.targets[i] \in probe.condition})
        ELSE /\ out.count = 0
             /\ out.evaluated = <<>>

\* Three targets visited, two of them counted.
C19_Witness ==
    /\ Applied("count")
    /\ Len(probe.output.targets) = 3
    /\ out.count = 2
    /\ probe.output.targets[2] \notin probe.condition

\* C27: for a logically linked input, get_input_origin_socket returns the
\* origin the traversal visits, and when the traversal visits several, the last
\* of them; what it returns is a socket and nothing else.
C27_LastOriginVisited ==
    (Applied("origin") /\ probe.input.is_logically_linked) =>
        /\ out.origin = probe.input.origins[Len(probe.input.origins)]
        /\ out.origin \in OriginSockets

\* Two different origins were visited and the second was returned.
C27_Witness ==
    /\ Applied("origin")
    /\ probe.input.is_logically_linked
    /\ Len(probe.input.origins) = 2
    /\ probe.input.origins[1] # probe.input.origins[2]
    /\ out.origin = probe.input.origins[2]

C29_TraversalsAgree ==
    Applied("linked_and_count") =>
        (out.linked.condition_satisfied <=> out.number.count > 0)

\* Three targets, the first on a node that fails the condition, the other two
\* counted.
C29_Witness ==
    /\ Applied("linked_and_count")
    /\ Len(probe.output.targets) = 3
    /\ probe.output.targets[1].node \notin probe.condition
    /\ out.linked.condition_satisfied
    /\ out.number.count = 2

-----------------------------------------------------------------------------
(* Properties of the CachedImage constructor (SpecCtor). *)

\* The positions in the record of buffer operations where `op' was done to the
\* buffer of the local `buffer', a buffer that exists.
Operations(op, buffer) ==
    {i \in 1..Len(ctor.log) :
        /\ ctor.log[i].op = op
        /\ ctor.log[i].buffer = buffer
        /\ ~ctor.log[i].null}

\* C26: in the CachedImage constructor no image buffer is released more often
\* than it was acquired, nor the linear buffer freed more often than allocated,
\* and when the constructor returns each was released or freed exactly once;
\* nothing is read from a buffer after its release; a second acquisition or an
\* allocation only follows the release of an initial buffer that exists, and
\* with a null initial buffer the constructor returns having done nothing but
\* acquire it and hand it to the release.
C26_BuffersReleasedOnce ==
    /\ \A buffer \in {"initial_image_buffer", "image_buffer"} :
           /\ Cardinality(Operations("acquire", buffer)) <= 1
           /\ Cardinality(Operations("release", buffer))
                  <= Cardinality(Operations("acquire", buffer))
           /\ ctor.pc = "returned" =>
                  Cardinality(Operations("release", buffer))
                      = Cardinality(Operations("acquire", buffer))
    /\ Cardinality(Operations("allocate", "linear_image_buffer")) <= 1
    /\ Cardinality(Operations("free", "linear_image_buffer"))
           <= Cardinality(Operations("allocate", "linear_image_buffer"))
    /\ ctor.pc = "returned" =>
           Cardinality(Operations("free", "linear_image_buffer"))
               = Cardinality(Operations("allocate", "linear_image_buffer"))
    /\ \A i, j \in 1..Len(ctor.log) :
           (i < j /\ ctor.log[i].op \in {"release", "free"} /\ ctor.log[j].op = "use")
               => ctor.log[j].buffer # ctor.log[i].buffer
    /\ \A j \in 1..Len(ctor.log) :
           (ctor.log[j].op = "allocate" \/ ctor.log[j].buffer = "image_buffer")
               => \E i \in Operations("release", "initial_image_buffer") : i < j
    /\ (ctor.pc = "returned" /\ ctor.initial_image_buffer = NULL) =>
           ctor.log = <<[op |-> "acquire", buffer |-> "initial_image_buffer", null |-> TRUE],
                        [op |-> "release", buffer |-> "initial_image_buffer", null |-> TRUE]>>

\* A constructor that returned after both acquisitions gave it a buffer, on
\* the CPU.
C26_Witness ==
    /\ ctor.pc = "returned"
    /\ ~use_gpu(context)
    /\ Operations("release", "image_buffer") # {}
    /\ Operations("free", "linear_image_buffer") # {}
    /\ ctor.result.allocated

-----------------------------------------------------------------------------
(* Properties of JackDevice (SpecJack). *)

\* C30: once ~JackDevice has begun, the mixing thread leaves its loop and the
\* destructor's join() returns.
C30_ShutdownTerminates ==
    (jack.destructor # "none") ~> (jack.destructor = "joined")

-----------------------------------------------------------------------------
(* Properties of the key (SpecKey) and of the owner identity (SpecOwner). *)

\* C8: two keys are equal exactly when frame number, layer, view and pass name
\* are all equal, and equal keys have equal hashes.
C8_KeyEqualityAndHash ==
    out # NoProbe =>
        /\ out.eq <=> /\ probe.a.image_user.framenr = probe.b.image_user.framenr
                      /\ probe.a.image_user.layer = probe.b.image_user.layer
                      /\ probe.a.image_user.view = probe.b.image_user.view
                      /\ probe.a.pass_name = probe.b.pass_name
        /\ out.eq => out.hash_a = out.hash_b

\* Keys that differ only in the pass index of the image user: equal, same hash.
C8_Witness ==
    /\ out # NoProbe
    /\ out.eq
    /\ probe.a # probe.b
    /\ out.hash_a = out.hash_b

\* C9: images that differ in ID name or in library never get the same id_key.
C9_OwnerKeyUnique ==
    (out # NoProbe /\ probe.a.id # probe.b.id) => out.id_key_a # out.id_key_b

====
